---- MODULE Spec2Model ----
(***************************************************************************)
(* Land-cover / land-use analysis with Sentinel-2 bands: a model of the    *)
(* index calculator (calculate_ndvi.py, urban_extraction.py), the change   *)
(* detector (change_detection.py), the windowed classifier                 *)
(* (land_cover_classification.py), band alignment, the statistics reports, *)
(* the per-year loops of the scripts, run_all_analyses.py and the urban    *)
(* class raster (extract_urban_areas, save_urban_areas).                   *)
(*                                                                         *)
(* Each script is modelled by a specification of its own (SpecIndex,       *)
(* SpecChange, ...) over one set of variables; a specification leaves the  *)
(* variables of the other scripts at their idle values.                    *)
(*                                                                         *)
(* Numbers.  A float32 pixel is a record [nan, n, d]: not-a-number, or the *)
(* rational n/d in lowest terms (d > 0), or an infinity (d = 0, n = +-1).  *)
(* Rounding of float32 is not modelled: sums, differences and quotients of *)
(* the small integers used here are taken exactly.                         *)
(***************************************************************************)
EXTENDS Integers, Sequences, FiniteSets, TLC

VARIABLES
    red, nir,          \* calculate_ndvi: the two band rasters read from disk
    ndvi,              \* calculate_ndvi: the returned index raster
    ipc,               \* calculate_ndvi: "idle" | "start" | "done"
    ndvi_2021, ndvi_2025,    \* change_detection: the two NDVI rasters on disk
    class_2021, class_2025,  \* change_detection: the two label maps on disk
    threshold,         \* classify_changes: its threshold argument
    ndvi_diff,         \* the raster calculate_ndvi_difference returned
    changes,           \* the raster classify_changes returned
    change_matrix,     \* the raster compare_classifications returned
    written,           \* change_detection: the output files written so far
    nodata_of,         \* change_detection: the nodata value declared in each file written
    cerr,              \* change_detection: the exception that ended the script
    cpc,               \* change_detection: position in main
    stacks,            \* land_cover_classification: per year, the band files (B2, B3, ...)
    srcProfile,        \* the profile (metadata) of the first band file
    window_size,       \* prepare_classification_data: its window_size argument
    year,              \* main: index of the year being processed
    window,            \* the window computed from the first band: [x1, y1, x2, y2]
    profile,           \* the profile dict returned by prepare_classification_data
    valid_data,        \* prepare_classification_data: rows of valid pixels
    valid_pixels,      \* prepare_classification_data: the validity mask, flattened
    original_shape,    \* prepare_classification_data: (height, width) of the crop
    labels,            \* perform_classification: one cluster id per valid pixel
    n_clusters,        \* perform_classification: its n_clusters argument
    kmeans_rng,        \* the state of the random generator the last KMeans left behind
    classification_map,  \* create_classification_map: the returned label map
    outputs,           \* per year, the label map written to classification_<year>.tif
    kerr,              \* the exception that ended land_cover_classification.main
    kpc,               \* land_cover_classification: position in main
    red_band, nir_band, swir_band,  \* urban_extraction: the three band files
    swir,              \* calculate_built_up_index: SWIR as resample_to_match returned it
    bui_ndvi, ndbi,    \* calculate_built_up_index: the two component indices
    bui,               \* calculate_built_up_index: the built-up index
    bui_file,          \* the raster written to the output path
    uerr,              \* the exception that ended calculate_built_up_index
    upc,               \* calculate_built_up_index: "idle" | "start" | "done" | "failed"
    src_grid,          \* resample_to_match: the raster in the file at src_path
    match_grid,        \* resample_to_match: the raster in the file at match_path
    aligned,           \* resample_to_match: the array returned by the last call
    apc,               \* resample_to_match: "idle" | "start" | "aligned" | "realigned"
    sta_kind,          \* statistics: "urban" | "change" | "labels" (which report is made)
    sta_raster,        \* statistics: urban_mask, or changes, or the label map written
    sta_matrix,        \* calculate_change_statistics: its change_matrix argument
    sta_valid,         \* class distribution: the validity mask of the cropped grid
    sta_labels,        \* class distribution: one cluster id per valid pixel
    pixel_area_m2,     \* calculate_urban_statistics: its pixel_area_m2 argument
    report,            \* the lines printed, one per distinct value
    matrix_report,     \* calculate_change_statistics: the classification-change lines
    spc,               \* statistics: "idle" | "start" | "done"
    ys_script,         \* per-year scripts: "ndvi" | "classification" | "urban"
    ys_present,        \* the band files under data/: pairs <<year, band>>
    ys_roi,            \* whether the shapefile under data/roi/ is there
    ys_year,           \* main: index into years of the year the loop is at
    ys_written,        \* the output files written: pairs <<name, year>>
    ys_skipped,        \* the years skipped with a printed warning
    ys_err,            \* the exception that ended main
    ys_pc,             \* main: "idle" | "loop" | "epilogue" | "done" | "failed"
    rn_missing,        \* run_all_analyses: whether check_dependencies finds a package missing
    rn_i,              \* main: index into analyses of the analysis the loop is at
    rn_log,            \* the child processes started and ended, in order
    results,           \* main: the results dict, description -> success
    successful,        \* main: the success count of the summary
    rn_pc,             \* main: "idle" | "check" | "loop" | "running" | "done" | "returned"
    ex_ndvi, ex_bui,   \* extract_urban_areas: its ndvi and bui arguments
    ex_urban_mask,     \* the urban_mask extract_urban_areas returned
    ex_profile,        \* save_urban_areas: the profile dict the caller passes
    urban_file,        \* the binary raster written to the output path
    epc                \* urban classes: "idle" | "start" | "extracted" | "saved"

idxVars == <<red, nir, ndvi, ipc>>
chgVars == <<ndvi_2021, ndvi_2025, class_2021, class_2025, threshold, ndvi_diff,
             changes, change_matrix, written, nodata_of, cerr, cpc>>
clsVars == <<stacks, srcProfile, window_size, year, window, profile, valid_data,
             valid_pixels, original_shape, labels, n_clusters, kmeans_rng,
             classification_map, outputs, kerr, kpc>>
urbVars == <<red_band, nir_band, swir_band, swir, bui_ndvi, ndbi, bui, bui_file,
             uerr, upc>>
alnVars == <<src_grid, match_grid, aligned, apc>>
staVars == <<sta_kind, sta_raster, sta_matrix, sta_valid, sta_labels, pixel_area_m2,
             report, matrix_report, spc>>
ysVars == <<ys_script, ys_present, ys_roi, ys_year, ys_written, ys_skipped, ys_err,
            ys_pc>>
runVars == <<rn_missing, rn_i, rn_log, results, successful, rn_pc>>
extVars == <<ex_ndvi, ex_bui, ex_urban_mask, ex_profile, urban_file, epc>>
vars == <<idxVars, chgVars, clsVars, urbVars, alnVars, staVars, ysVars, runVars, extVars>>

----------------------------------------------------------------------------
(* Bounds of the model *)

MaxVal == 2            \* band values are drawn from -1..MaxVal and NaN
MaxW == 2              \* widest raster row
MaxH == 2              \* tallest raster (shape checks)
MaxLabel == 3          \* largest class label in a label map
MaxDim == 4            \* largest grid height and width (window geometry)
MaxWin == 5            \* largest requested window size
NBands == 2            \* number of band files stacked for classification

----------------------------------------------------------------------------
(* float32 arithmetic (IEEE 754 semantics of numpy) *)

Abs(x) == IF x < 0 THEN -x ELSE x

RECURSIVE GCD(_, _)
GCD(a, b) == IF b = 0 THEN a ELSE GCD(b, a % b)

FNaN == [nan |-> TRUE, n |-> 0, d |-> 1]
Rat(num, den) ==
    LET s == IF den < 0 THEN -1 ELSE 1
        g == GCD(Abs(num), Abs(den))
    IN  [nan |-> FALSE, n |-> (s * num) \div g, d |-> (s * den) \div g]
FInt(i) == [nan |-> FALSE, n |-> i, d |-> 1]
FZero == FInt(0)
FInf(sign) == [nan |-> FALSE, n |-> sign, d |-> 0]
IsNaN(x) == x.nan
IsInf(x) == ~x.nan /\ x.d = 0
IsFinite(x) == ~x.nan /\ x.d > 0

\* x + y on float32 operands
FAdd(x, y) ==
    IF IsNaN(x) \/ IsNaN(y) THEN FNaN
    ELSE IF IsInf(x) /\ IsInf(y) THEN (IF x.n = y.n THEN x ELSE FNaN)
    ELSE IF IsInf(x) THEN x
    ELSE IF IsInf(y) THEN y
    ELSE Rat(x.n * y.d + y.n * x.d, x.d * y.d)

FNeg(x) == IF IsNaN(x) THEN FNaN ELSE [x EXCEPT !.n = -x.n]

\* x - y
FSub(x, y) == FAdd(x, FNeg(y))

\* x / y: 0/0 and inf/inf are NaN, x/0 is an infinity
FDiv(x, y) ==
    IF IsNaN(x) \/ IsNaN(y) THEN FNaN
    ELSE IF IsInf(x) /\ IsInf(y) THEN FNaN
    ELSE IF IsInf(x) THEN FInf(IF y.n < 0 THEN -x.n ELSE x.n)
    ELSE IF IsInf(y) THEN FZero
    ELSE IF y.n = 0 THEN (IF x.n = 0 THEN FNaN ELSE FInf(IF x.n < 0 THEN -1 ELSE 1))
    ELSE Rat(x.n * y.d, x.d * y.n)

\* comparisons: every ordered comparison with NaN is False, NaN != y is True
FEq(x, y) == ~IsNaN(x) /\ ~IsNaN(y) /\ x = y
FNe(x, y) == ~FEq(x, y)
FLt(x, y) ==
    /\ ~IsNaN(x) /\ ~IsNaN(y)
    /\ IF IsInf(x) \/ IsInf(y)
       THEN x # y /\ ((IsInf(x) /\ x.n < 0) \/ (IsInf(y) /\ y.n > 0))
       ELSE x.n * y.d < y.n * x.d
FGt(x, y) == FLt(y, x)
FLe(x, y) == FLt(x, y) \/ FEq(x, y)
FGe(x, y) == FLe(y, x)

----------------------------------------------------------------------------
(* Rasters: a raster is a sequence of rows, every row of the same width *)

Height(r) == Len(r)
Width(r) == IF Len(r) = 0 THEN 0 ELSE Len(r[1])
Shape(r) == <<Height(r), Width(r)>>
Pixels(r) == {<<y, x>> : y \in 1..Height(r), x \in 1..Width(r)}
None == <<>>

\* the values a band file can hold once read as float32
BandVals == {FNaN} \cup {FInt(i) : i \in -1..MaxVal}
BandRasters == [1..1 -> [1..MaxW -> BandVals]]

----------------------------------------------------------------------------
(* calculate_ndvi.py *)

\* numpy.where(cond, a, b) at one pixel
np_where(cond, a, b) == IF cond THEN a ELSE b

\* the quotient of one pixel without the zero-sum rule
NormDiffNoGuard(a, b) == FDiv(FSub(a, b), FAdd(a, b))

\* the index of one pixel computed in an unsigned integer type of 8 bits: sum and
\* difference modulo 2^8, integer quotient
NormDiffUint8(a, b) ==
    LET sum == (a.n + b.n) % 256
        dif == (a.n - b.n) % 256
    IN  IF sum # 0 THEN FInt(dif \div sum) ELSE FZero

\* the difference of one pixel without its normalisation by the sum
NormDiffRaw(a, b) ==
    np_where(FNe(FAdd(a, b), FZero), FSub(a, b), FZero)

\* the normalized difference of one pixel: np.where((a + b) != 0, (a - b) / (a + b), 0)
NormDiff(a, b) ==
    np_where(FNe(FAdd(a, b), FZero), FDiv(FSub(a, b), FAdd(a, b)), FZero)

\* calculate_ndvi: NDVI = (NIR - Red) / (NIR + Red), elementwise
calculate_ndvi(redBand, nirBand) ==
    [y \in 1..Height(redBand) |->
        [x \in 1..Width(redBand) |-> NormDiff(nirBand[y][x], redBand[y][x])]]

IdxInit ==
    /\ red \in BandRasters
    /\ nir \in BandRasters
    /\ ndvi = None
    /\ ipc = "start"

IdxIdle ==
    /\ red = None /\ nir = None /\ ndvi = None /\ ipc = "idle"

CalcNdvi ==
    /\ ipc = "start"
    /\ ndvi' = calculate_ndvi(red, nir)
    /\ ipc' = "done"
    /\ UNCHANGED <<red, nir>>

----------------------------------------------------------------------------
(* change_detection.py *)

\* numpy broadcasting of two 2-D shapes: a dimension pair is compatible when the
\* two are equal or one of them is 1
DimOk(a, b) == a = b \/ a = 1 \/ b = 1
Broadcastable(s1, s2) == DimOk(s1[1], s2[1]) /\ DimOk(s1[2], s2[2])
Max(a, b) == IF a >= b THEN a ELSE b
Min(a, b) == IF a <= b THEN a ELSE b
BroadcastShape(s1, s2) == <<Max(s1[1], s2[1]), Max(s1[2], s2[2])>>
\* the element of r that numpy pairs with position (y, x) of the broadcast result
BAt(r, y, x) == r[IF Height(r) = 1 THEN 1 ELSE y][IF Width(r) = 1 THEN 1 ELSE x]

\* ndvi_diff = ndvi_2025 - ndvi_2021 (numpy subtraction, broadcasting included)
ArrayDiff(e, l) ==
    LET s == BroadcastShape(Shape(e), Shape(l))
    IN  [y \in 1..s[1] |-> [x \in 1..s[2] |-> FSub(BAt(l, y, x), BAt(e, y, x))]]

\* classify_changes at one pixel: the three masked assignments, in order, on a
\* value that starts at 0
classify_pixel_open(d, tau) ==
    LET c0 == 0
        c1 == IF FLt(d, FNeg(tau)) THEN 1 ELSE c0
        c2 == IF FGe(d, tau) THEN 2 ELSE c1
    IN  IF FGe(d, FNeg(tau)) /\ FLt(d, tau) THEN 3 ELSE c2
classify_pixel(d, tau) ==
    LET c0 == 0
        c1 == IF FLt(d, FNeg(tau)) THEN 1 ELSE c0
        c2 == IF FGt(d, tau) THEN 2 ELSE c1
    IN  IF FGe(d, FNeg(tau)) /\ FLe(d, tau) THEN 3 ELSE c2

classify_changes(diff, tau) ==
    [y \in 1..Height(diff) |-> [x \in 1..Width(diff) |-> classify_pixel(diff[y][x], tau)]]

\* compare_classifications: change_matrix[class_2021 != class_2025] = 1 on zeros
label_differs_lt(a, b) == IF a < b THEN 1 ELSE 0
label_differs(a, b) == IF a # b THEN 1 ELSE 0
compare_arrays(c21, c25) ==
    [y \in 1..Height(c21) |->
        [x \in 1..Width(c21) |-> label_differs(c21[y][x], BAt(c25, y, x))]]

\* NDVI values on disk (0.2, 0.3, 0.35 and not-a-number) and thresholds (0, 0.1)
NdviVals == {FNaN, Rat(1, 5), Rat(3, 10), Rat(7, 20)}
TauVals == {FZero, Rat(1, 10)}
DefaultTau == Rat(1, 10)
NdviRows == [1..1 -> [1..MaxW -> NdviVals]]
LabelRows == [1..1 -> [1..MaxW -> 0..MaxLabel]]
Const(h, w, v) == [y \in 1..h |-> [x \in 1..w |-> v]]
Shapes == (1..MaxH) \X (1..MaxW)

\* the files change_detection.main finds on disk: NDVI rasters of one shape and any
\* values, or label maps of one shape and any labels, or rasters of any shapes
ChgInit ==
    /\ \/ /\ ndvi_2021 \in NdviRows /\ ndvi_2025 \in NdviRows
          /\ threshold \in TauVals
          /\ class_2021 = None /\ class_2025 = None
       \/ /\ ndvi_2021 = Const(1, MaxW, Rat(1, 5)) /\ ndvi_2025 = Const(1, MaxW, Rat(7, 20))
          /\ threshold = DefaultTau
          /\ class_2021 \in LabelRows /\ class_2025 \in LabelRows
       \/ /\ \E s1 \in Shapes, s2 \in Shapes :
                /\ ndvi_2021 = Const(s1[1], s1[2], Rat(1, 5))
                /\ ndvi_2025 = Const(s2[1], s2[2], Rat(7, 20))
          /\ threshold = DefaultTau
          /\ \E s1 \in Shapes, s2 \in Shapes :
                /\ class_2021 = Const(s1[1], s1[2], 1)
                /\ class_2025 = Const(s2[1], s2[2], 2)
    /\ ndvi_diff = None /\ changes = None /\ change_matrix = None
    /\ written = {} /\ nodata_of = {} /\ cerr = "none" /\ cpc = "start"

ChgIdle ==
    /\ ndvi_2021 = None /\ ndvi_2025 = None /\ class_2021 = None /\ class_2025 = None
    /\ threshold = FZero /\ ndvi_diff = None /\ changes = None
    /\ change_matrix = None /\ written = {} /\ nodata_of = {}
    /\ cerr = "none" /\ cpc = "idle"

\* profile.update(dtype=rasterio.float32, count=1, nodata=-9999) of an index raster
\* and profile.update(dtype=rasterio.uint8, count=1, nodata=0) of a categorical one
INDEX_NODATA == -9999
LABEL_NODATA == 0

\* rasterio.open(path, 'w', **profile) and dst.write: the file exists afterwards
\* and carries the nodata value of the profile
Write(file, nd) ==
    /\ written' = written \cup {file}
    /\ nodata_of' = nodata_of \cup {[file |-> file, nodata |-> nd]}

\* calculate_ndvi_difference: read both rasters, subtract, write, return
NdviDifference ==
    /\ cpc = "start"
    /\ IF Broadcastable(Shape(ndvi_2021), Shape(ndvi_2025))
       THEN LET d == ArrayDiff(ndvi_2021, ndvi_2025)
            IN  \/ /\ ndvi_diff' = d
                   /\ Write("ndvi_difference.tif", INDEX_NODATA)
                   /\ cerr' = "none"
                   /\ cpc' = "diffed"
                \* the result does not fit the 2021 profile: the write may be refused
                \/ /\ Shape(d) # Shape(ndvi_2021)
                   /\ cerr' = "ValueError"
                   /\ cpc' = "failed"
                   /\ UNCHANGED <<ndvi_diff, written, nodata_of>>
       ELSE /\ cerr' = "ValueError"
            /\ cpc' = "failed"
            /\ UNCHANGED <<ndvi_diff, written, nodata_of>>
    /\ UNCHANGED <<ndvi_2021, ndvi_2025, class_2021, class_2025, threshold,
                   changes, change_matrix>>

\* main: classify_changes(ndvi_diff, threshold), then the changes raster is written
ClassifyChanges ==
    /\ cpc = "diffed"
    /\ changes' = classify_changes(ndvi_diff, threshold)
    /\ IF Shape(ndvi_diff) = Shape(ndvi_2021)
       THEN /\ Write("changes.tif", LABEL_NODATA)
            /\ cpc' = "classified"
            /\ cerr' = "none"
       ELSE \/ /\ Write("changes.tif", LABEL_NODATA)
               /\ cpc' = "classified"
               /\ cerr' = "none"
            \/ /\ cerr' = "ValueError"
               /\ cpc' = "failed"
               /\ UNCHANGED <<written, nodata_of>>
    /\ UNCHANGED <<ndvi_2021, ndvi_2025, class_2021, class_2025, threshold,
                   ndvi_diff, change_matrix>>

\* compare_classifications: read both label maps, mark the differing pixels,
\* write, return
CompareClassifications ==
    /\ cpc = "classified"
    /\ class_2021 # None /\ class_2025 # None
    /\ IF ~Broadcastable(Shape(class_2021), Shape(class_2025))
       THEN /\ cerr' = "ValueError"
            /\ cpc' = "failed"
            /\ UNCHANGED <<change_matrix, written, nodata_of>>
       ELSE IF BroadcastShape(Shape(class_2021), Shape(class_2025)) # Shape(class_2021)
       THEN /\ cerr' = "IndexError"
            /\ cpc' = "failed"
            /\ UNCHANGED <<change_matrix, written, nodata_of>>
       ELSE /\ change_matrix' = compare_arrays(class_2021, class_2025)
            /\ Write("classification_changes.tif", LABEL_NODATA)
            /\ cerr' = "none"
            /\ cpc' = "done"
    /\ UNCHANGED <<ndvi_2021, ndvi_2025, class_2021, class_2025, threshold,
                   ndvi_diff, changes>>

----------------------------------------------------------------------------
(* land_cover_classification.py *)

\* the nodata field of a profile is the set of values declared: empty when none
NoWindow == [x1 |-> 0, y1 |-> 0, x2 |-> 0, y2 |-> 0]
NoProfile == [height |-> 0, width |-> 0, origin_x |-> 0, origin_y |-> 0,
              pixel_w |-> 0, pixel_h |-> 0, dtype |-> "none", nodata |-> {}]

\* a window whose half-width is the whole window size
UnhalvedWindow(h, w, size) ==
    LET center_y == h \div 2
        center_x == w \div 2
        half_win == size
    IN  [x1 |-> Max(center_x - half_win, 0), y1 |-> Max(center_y - half_win, 0),
         x2 |-> Min(center_x + half_win, w), y2 |-> Min(center_y + half_win, h)]

\* the centred window of prepare_classification_data, in 0-based pixel offsets:
\* rows y1..y2-1 and columns x1..x2-1 of a grid of height h and width w
CenterWindow(h, w, size) ==
    LET center_y == h \div 2
        center_x == w \div 2
        half_win == size \div 2
    IN  [x1 |-> Max(center_x - half_win, 0), y1 |-> Max(center_y - half_win, 0),
         x2 |-> Min(center_x + half_win, w), y2 |-> Min(center_y + half_win, h)]

\* a profile whose origin is moved to the window's corner (x1, y1)
ShiftedProfile(src, win) ==
    [src EXCEPT !.height = win.y2 - win.y1, !.width = win.x2 - win.x1,
                !.origin_x = src.origin_x + win.x1 * src.pixel_w,
                !.origin_y = src.origin_y + win.y1 * src.pixel_h]

\* profile = src.profile.copy(); profile.update(height=(y2 - y1), width=(x2 - x1))
WindowProfile(src, win) ==
    [src EXCEPT !.height = win.y2 - win.y1, !.width = win.x2 - win.x1]

\* src.profile of a band file: its georeferencing and its own height and width
FileProfile(geo, band) == [geo EXCEPT !.height = Height(band), !.width = Width(band)]

\* src.read(1, window=window): the rows and columns of the band inside the window
ReadWindow(band, win) ==
    [r \in 1..(win.y2 - win.y1) |->
        [c \in 1..(win.x2 - win.x1) |-> band[win.y1 + r][win.x1 + c]]]

\* stacked.reshape(n_bands, -1).T: row p (row-major pixel order) holds the values
\* of pixel p in band order
Reshaped(stacked, h, w) ==
    [p \in 1..(h * w) |->
        [b \in 1..Len(stacked) |-> stacked[b][((p - 1) \div w) + 1][((p - 1) % w) + 1]]]

\* ~np.any(np.isnan(row) | (row == 0)): no band value is not-a-number or zero
RowValidAll(row) == ~(\A b \in 1..Len(row) : IsNaN(row[b]) \/ FEq(row[b], FZero))
RowValid(row) == ~(\E b \in 1..Len(row) : IsNaN(row[b]) \/ FEq(row[b], FZero))
ValidMask(reshaped) == [p \in 1..Len(reshaped) |-> RowValid(reshaped[p])]

\* reshaped[valid_pixels]: the rows whose mask is True, in order
RECURSIVE Masked(_, _, _)
Masked(rows, mask, p) ==
    IF p > Len(rows) THEN <<>>
    ELSE (IF mask[p] THEN <<rows[p]>> ELSE <<>>) \o Masked(rows, mask, p + 1)

\* --- sklearn, as perform_classification uses it ---------------------------------
\* StandardScaler().fit_transform and KMeans(n_clusters, random_state=42,
\* n_init=10).fit_predict, on rows of integer band values.  Distances are taken
\* between standardized rows; they are compared exactly, in integers, by clearing
\* the denominators (the per-band variances and the cluster sizes).  The random
\* generator is a small linear congruential one, and the seeding of the centres
\* draws distinct samples from it.

RANDOM_STATE == 42
N_INIT == 10
N_CLUSTERS == 5
DEFAULT_WINDOW == 100
MaxIter == 3           \* cap on Lloyd iterations per restart
MaxRestarts == 2       \* cap on the restarts modelled, of the N_INIT asked for

RECURSIVE SumSeq(_)
SumSeq(q) == IF q = <<>> THEN 0 ELSE Head(q) + SumSeq(Tail(q))
RECURSIVE ProdSeq(_)
ProdSeq(q) == IF q = <<>> THEN 1 ELSE Head(q) * ProdSeq(Tail(q))
RECURSIVE Fact(_)
Fact(n) == IF n <= 1 THEN 1 ELSE n * Fact(n - 1)

Feat(row, b) == row[b].n
NFeat(data) == Len(data[1])

\* n^2 times the variance of band b over the rows (StandardScaler.fit)
ScaledVar(data, b) ==
    LET n == Len(data)
        sum == SumSeq([i \in 1..n |-> Feat(data[i], b)])
        sq == SumSeq([i \in 1..n |-> Feat(data[i], b) * Feat(data[i], b)])
    IN  n * sq - sum * sum

\* weight of band b in a squared distance between standardized rows, the common
\* denominator cleared; a band of zero variance standardizes to all zeros
BandWeights(data) ==
    [b \in 1..NFeat(data) |->
        IF ScaledVar(data, b) = 0 THEN 0
        ELSE ProdSeq([c \in 1..NFeat(data) |->
                IF c = b \/ ScaledVar(data, c) = 0 THEN 1 ELSE ScaledVar(data, c)])]

\* a centre is the mean T / m of m rows with band sums T
CentreOf(row) == [T |-> [b \in 1..Len(row) |-> Feat(row, b)], m |-> 1]
\* m^2 times the weighted squared distance of a row to a centre
DistNum(row, c, wts) ==
    SumSeq([b \in 1..Len(row) |->
        (c.m * Feat(row, b) - c.T[b]) * (c.m * Feat(row, b) - c.T[b]) * wts[b]])
Closer(row, c1, c2, wts) ==
    DistNum(row, c1, wts) * c2.m * c2.m < DistNum(row, c2, wts) * c1.m * c1.m

\* index of the nearest centre, the lowest index on ties (argmin)
RECURSIVE ArgMin(_, _, _, _, _)
ArgMin(row, centres, wts, k, best) ==
    IF k > Len(centres) THEN best
    ELSE ArgMin(row, centres, wts, k + 1,
                IF Closer(row, centres[k], centres[best], wts) THEN k ELSE best)

\* the 0-indexed cluster id of every row
Assign(data, centres, wts) ==
    [i \in 1..Len(data) |-> ArgMin(data[i], centres, wts, 2, 1) - 1]

\* the means of the clusters; an empty cluster keeps its centre
Recentre(data, lab, centres) ==
    [k \in 1..Len(centres) |->
        LET cnt == SumSeq([i \in 1..Len(data) |-> IF lab[i] = k - 1 THEN 1 ELSE 0])
        IN  IF cnt = 0 THEN centres[k]
            ELSE [T |-> [b \in 1..NFeat(data) |->
                            SumSeq([i \in 1..Len(data) |->
                                IF lab[i] = k - 1 THEN Feat(data[i], b) ELSE 0])],
                  m |-> cnt]]

\* Lloyd iterations until the labels no longer change, at most MaxIter of them
RECURSIVE Lloyd(_, _, _, _)
Lloyd(data, centres, wts, it) ==
    LET lab == Assign(data, centres, wts)
        moved == Recentre(data, lab, centres)
        relab == Assign(data, moved, wts)
    IN  IF it >= MaxIter \/ relab = lab
        THEN [centres |-> moved, labels |-> relab]
        ELSE Lloyd(data, moved, wts, it + 1)

\* the inertia of a labelling, times (n!)^2 so that it is an integer
Inertia(data, lab, centres, wts) ==
    LET den == Fact(Len(data)) * Fact(Len(data))
    IN  SumSeq([i \in 1..Len(data) |->
            LET c == centres[lab[i] + 1]
            IN  (DistNum(data[i], c, wts) * den) \div (c.m * c.m)])

\* the random generator
LcgNext(s) == (5 * s + 3) % 256
Draw(s, n) == (s \div 16) % n
Seeded(seed) == seed % 256

\* k distinct sample indices drawn from the generator
RECURSIVE PickCentres(_, _, _, _)
PickCentres(remaining, k, s, acc) ==
    IF k = 0 THEN [idx |-> acc, rng |-> s]
    ELSE LET j == Draw(s, Len(remaining)) + 1
         IN  PickCentres(SubSeq(remaining, 1, j - 1) \o SubSeq(remaining, j + 1, Len(remaining)),
                         k - 1, LcgNext(s), Append(acc, remaining[j]))

\* n_init restarts (MaxRestarts of them here); the first labelling of lowest
\* inertia is kept
RECURSIVE BestOf(_, _, _, _, _, _)
BestOf(data, k, wts, s, r, best) ==
    IF r > N_INIT \/ r > MaxRestarts THEN [labels |-> best.labels, rng |-> s]
    ELSE LET pick == PickCentres([i \in 1..Len(data) |-> i], k, s, <<>>)
             run == Lloyd(data, [c \in 1..k |-> CentreOf(data[pick.idx[c]])], wts, 1)
             cand == [labels |-> run.labels,
                      inertia |-> Inertia(data, run.labels, run.centres, wts)]
         IN  BestOf(data, k, wts, pick.rng, r + 1,
                    IF r = 1 \/ cand.inertia < best.inertia THEN cand ELSE best)

\* the generator KMeans starts from: random_state=42 seeds a new one on every call
ReusedRandomState(left) == left
NewRandomState(left) == Seeded(RANDOM_STATE)

\* perform_classification(data, n_clusters): the labels, and the generator state
\* the KMeans object is left with
perform_classification(data, k, left) ==
    BestOf(data, k, BandWeights(data), NewRandomState(left), 1,
           [labels |-> <<>>, inertia |-> 0])

\* --- create_classification_map ---------------------------------------------------

\* a value stored into a numpy uint8 array
Uint8(v) == v % 256

\* number of True entries of mask[1..p]
RECURSIVE CountTrue(_, _)
CountTrue(mask, p) ==
    IF p = 0 THEN 0 ELSE CountTrue(mask, p - 1) + (IF mask[p] THEN 1 ELSE 0)

\* full_map = zeros(h * w, uint8); full_map[valid_pixels] = labels + 1;
\* reshape(original_shape)
FullMap(lab, mask, shape) ==
    LET flat == [p \in 1..(shape[1] * shape[2]) |->
                    IF mask[p] THEN Uint8(lab[CountTrue(mask, p)] + 1) ELSE 0]
    IN  [y \in 1..shape[1] |-> [x \in 1..shape[2] |-> flat[(y - 1) * shape[2] + x]]]

\* profile.update(dtype=rasterio.uint8, count=1, nodata=0), on the caller's dict
LabelProfile(prof) == [prof EXCEPT !.dtype = "uint8", !.nodata = {0}]

ClsIdle ==
    /\ stacks = <<>> /\ srcProfile = NoProfile /\ window_size = 0 /\ year = 0
    /\ window = NoWindow /\ profile = NoProfile /\ valid_data = <<>>
    /\ valid_pixels = <<>> /\ original_shape = <<0, 0>> /\ labels = <<>>
    /\ n_clusters = 0 /\ kmeans_rng = 0
    /\ classification_map = None /\ outputs = <<>> /\ kerr = "none" /\ kpc = "idle"

\* the georeferencing of the band files: origin, pixel size (north-up)
GeoRefs == {[NoProfile EXCEPT !.origin_x = ox, !.pixel_w = 10, !.pixel_h = -10,
                              !.origin_y = ox + 200, !.dtype = "uint16"] : ox \in {0, 300}}
PixelVals == {FZero, FInt(1), FNaN}
ContentStacks == [1..NBands -> [1..1 -> [1..MaxW -> PixelVals]]]

\* one year's band files: grids of every shape and one value with every window
\* size, or one-row grids of every content with the default window
WinInit ==
    /\ \/ /\ \E h \in 1..MaxDim, w \in 1..MaxDim :
                stacks = <<[b \in 1..NBands |-> Const(h, w, FInt(1))]>>
          /\ window_size \in 0..MaxWin
       \/ /\ \E st \in ContentStacks : stacks = <<st>>
          /\ window_size = DEFAULT_WINDOW
    /\ srcProfile \in GeoRefs
    /\ year = 1 /\ n_clusters = N_CLUSTERS /\ kmeans_rng = 0
    /\ window = NoWindow /\ profile = NoProfile /\ valid_data = <<>>
    /\ valid_pixels = <<>> /\ original_shape = <<0, 0>> /\ labels = <<>>
    /\ classification_map = None /\ outputs = <<None>> /\ kerr = "none"
    /\ kpc = "start"

\* the arguments of create_classification_map: a mask over a grid of two rows, and
\* one cluster id per True entry, small ids and the largest ones of 256 clusters
LabelIds == {0, 1, 254, 255}
MapInit ==
    /\ original_shape = <<2, MaxW>>
    /\ valid_pixels \in [1..(2 * MaxW) -> BOOLEAN]
    /\ labels \in [1..CountTrue(valid_pixels, 2 * MaxW) -> LabelIds]
    /\ n_clusters = 256
    /\ profile \in {[g EXCEPT !.height = 2, !.width = MaxW] : g \in GeoRefs}
    /\ srcProfile = NoProfile /\ stacks = <<None>> /\ window_size = 0 /\ year = 1
    /\ window = NoWindow /\ valid_data = <<>> /\ kmeans_rng = 0
    /\ classification_map = None /\ outputs = <<None>> /\ kerr = "none"
    /\ kpc = "labelled"

\* the band files of the two years of main: grids of one row and three columns
IntRaster(r) == [y \in 1..Len(r) |-> [x \in 1..Len(r[y]) |-> FInt(r[y][x])]]
Patterns == {IntRaster(<<<<1, 2, 5>>>>), IntRaster(<<<<5, 1, 2>>>>), IntRaster(<<<<1, 0, 4>>>>),
             IntRaster(<<<<3, 0, 0>>>>), IntRaster(<<<<0, 0, 0>>>>)}
SecondBands == {IntRaster(<<<<1, 1, 1>>>>), IntRaster(<<<<2, 7, 2>>>>)}
PipeStacks == {[b \in 1..NBands |-> IF b = 1 THEN pa ELSE IF b = 2 THEN pb
                                    ELSE Const(1, 3, FInt(1))] :
                    pa \in Patterns, pb \in SecondBands}
\* main asks for N_CLUSTERS clusters of a window of 100 x 100 pixels; on grids of
\* three pixels the model asks for two or three
ClsInit ==
    /\ stacks \in [1..2 -> PipeStacks]
    /\ window_size = DEFAULT_WINDOW
    /\ n_clusters \in {2, 3}
    /\ srcProfile \in GeoRefs
    /\ year = 1 /\ kmeans_rng = 0
    /\ window = NoWindow /\ profile = NoProfile /\ valid_data = <<>>
    /\ valid_pixels = <<>> /\ original_shape = <<0, 0>> /\ labels = <<>>
    /\ classification_map = None /\ outputs = <<None, None>> /\ kerr = "none"
    /\ kpc = "start"

\* prepare_classification_data(band_paths, roi_path, window_size)
Prepare ==
    /\ kpc = "start"
    /\ LET stack == stacks[year]
           win == CenterWindow(Height(stack[1]), Width(stack[1]), window_size)
           h == win.y2 - win.y1
           w == win.x2 - win.x1
           stacked == [b \in 1..Len(stack) |-> ReadWindow(stack[b], win)]
           reshaped == Reshaped(stacked, h, w)
       IN  /\ window' = win
           /\ profile' = WindowProfile(srcProfile, win)
           /\ original_shape' = <<h, w>>
           /\ valid_pixels' = ValidMask(reshaped)
           /\ valid_data' = Masked(reshaped, ValidMask(reshaped), 1)
    /\ kpc' = "prepared"
    /\ UNCHANGED <<stacks, srcProfile, window_size, year, labels, n_clusters,
                   kmeans_rng, classification_map, outputs, kerr>>

\* main: "No valid data for <year>. Skipping..."
SkipNoData ==
    /\ kpc = "prepared"
    /\ Len(valid_data) = 0
    /\ IF year < Len(stacks)
       THEN year' = year + 1 /\ kpc' = "start"
       ELSE year' = year /\ kpc' = "done"
    /\ UNCHANGED <<stacks, srcProfile, window_size, window, profile, valid_data,
                   valid_pixels, original_shape, labels, n_clusters, kmeans_rng,
                   classification_map, outputs, kerr>>

\* perform_classification(data, n_clusters); KMeans refuses fewer samples than
\* clusters with a ValueError, which main does not catch
Perform ==
    /\ kpc = "prepared"
    /\ Len(valid_data) > 0
    /\ IF Len(valid_data) < n_clusters
       THEN /\ kerr' = "ValueError"
            /\ kpc' = "failed"
            /\ UNCHANGED <<labels, kmeans_rng>>
       ELSE LET res == perform_classification(valid_data, n_clusters, kmeans_rng)
            IN  /\ labels' = res.labels
                /\ kmeans_rng' = res.rng
                /\ kpc' = "labelled"
                /\ kerr' = "none"
    /\ UNCHANGED <<stacks, srcProfile, window_size, year, window, profile, valid_data,
                   valid_pixels, original_shape, n_clusters, classification_map, outputs>>

\* create_classification_map(labels, valid_pixels, original_shape, output_path, profile)
CreateMap ==
    /\ kpc = "labelled"
    /\ classification_map' = FullMap(labels, valid_pixels, original_shape)
    /\ profile' = LabelProfile(profile)
    /\ outputs' = [outputs EXCEPT ![year] = FullMap(labels, valid_pixels, original_shape)]
    /\ kpc' = "mapped"
    /\ UNCHANGED <<stacks, srcProfile, window_size, year, window, valid_data,
                   valid_pixels, original_shape, labels, n_clusters, kmeans_rng, kerr>>

\* main: on to the next year
NextYear ==
    /\ kpc = "mapped"
    /\ IF year < Len(stacks)
       THEN year' = year + 1 /\ kpc' = "start"
       ELSE year' = year /\ kpc' = "done"
    /\ UNCHANGED <<stacks, srcProfile, window_size, window, profile, valid_data,
                   valid_pixels, original_shape, labels, n_clusters, kmeans_rng,
                   classification_map, outputs, kerr>>

----------------------------------------------------------------------------
(* urban_extraction.py *)

\* sampling at the far edge of every output pixel instead of its centre
AxisSampleEdge(i, n_src, n_out) ==
    LET wden == 2 * n_out
        raw == (2 * i - 1) * n_src
        pos == Min(Max(raw, 0), (n_src - 1) * wden)
        lo == pos \div wden
    IN  [lo |-> lo + 1, hi |-> Min(lo + 2, n_src), wnum |-> pos % wden, wden |-> wden]

\* bilinear resampling along one axis: output position i (1-based) of n_out pixels
\* has its centre at source coordinate ((2i - 1) * n_src - n_out) / (2 * n_out),
\* held inside the centres of the first and the last source pixel; lo and hi are
\* the two source pixels around it and wnum / wden the weight of hi
AxisSample(i, n_src, n_out) ==
    LET wden == 2 * n_out
        raw == (2 * i - 1) * n_src - n_out
        pos == Min(Max(raw, 0), (n_src - 1) * wden)
        lo == pos \div wden
    IN  [lo |-> lo + 1, hi |-> Min(lo + 2, n_src), wnum |-> pos % wden, wden |-> wden]

\* an integer quotient rounded to the nearest integer (halves upwards), as the
\* library stores an interpolated value in a band of integer type
RoundDiv(num, den) == (2 * num + den) \div (2 * den)

\* one output pixel of the bilinear resampling of src onto out_h x out_w
BilinearAt(src, y, x, out_h, out_w) ==
    LET sy == AxisSample(y, Height(src), out_h)
        sx == AxisSample(x, Width(src), out_w)
        top == (sx.wden - sx.wnum) * src[sy.lo][sx.lo] + sx.wnum * src[sy.lo][sx.hi]
        bot == (sx.wden - sx.wnum) * src[sy.hi][sx.lo] + sx.wnum * src[sy.hi][sx.hi]
    IN  RoundDiv((sy.wden - sy.wnum) * top + sy.wnum * bot, sy.wden * sx.wden)

\* the shape src.read is asked for: out_shape = (src.count, match.height, match.width)
OutShape(src, match) == <<Height(match), Width(match)>>

\* resample_to_match(src_path, match_path): band 1 of the source read at the
\* shape of the match file with Resampling.bilinear
resample_to_match(src, match) ==
    LET s == OutShape(src, match)
    IN  [y \in 1..s[1] |-> [x \in 1..s[2] |-> BilinearAt(src, y, x, s[1], s[2])]]

\* .astype(np.float32) of a band of integers
AsFloat32(r) == [y \in 1..Height(r) |-> [x \in 1..Width(r) |-> FInt(r[y][x])]]

\* np.where((a + b) != 0, (a - b) / (a + b), 0) on two arrays, broadcasting included
NormDiffArray(a, b) ==
    LET s == BroadcastShape(Shape(a), Shape(b))
    IN  [y \in 1..s[1] |-> [x \in 1..s[2] |-> NormDiff(BAt(a, y, x), BAt(b, y, x))]]

IntRasters(h, w, vals) == [1..h -> [1..w -> vals]]
UrbVals == -1..MaxVal
RefShapes == (1..MaxH) \X (1..MaxW)
SrcShapes == (1..MaxDim) \X (1..MaxDim)

\* the integer types of the band files (uint8, uint16) and, for a type of w bits,
\* its smallest values and its largest
BandWidths == {8, 16}
WidthSamples(w) == {0, 1, 2^w - 1}

\* the band files of one scene: bands of one shape with every pixel varied; bands
\* of one pixel holding the extreme values of their integer type; a SWIR band of
\* its own resolution against constant Red and NIR; three bands of any three
\* shapes, each constant
UrbInit ==
    /\ \/ /\ red_band \in IntRasters(1, 2, UrbVals)
          /\ nir_band \in IntRasters(1, 2, UrbVals)
          /\ swir_band \in IntRasters(1, 2, UrbVals)
       \/ \E w \in BandWidths :
             /\ red_band \in IntRasters(1, 1, WidthSamples(w))
             /\ nir_band \in IntRasters(1, 1, WidthSamples(w))
             /\ swir_band \in IntRasters(1, 1, WidthSamples(w))
       \/ /\ \E s \in RefShapes :
                /\ red_band = Const(s[1], s[2], 1)
                /\ nir_band = Const(s[1], s[2], 2)
          /\ \/ swir_band \in IntRasters(2, 2, UrbVals)
             \/ swir_band \in IntRasters(1, 1, UrbVals)
             \/ \E s \in SrcShapes : swir_band = Const(s[1], s[2], 5)
       \/ /\ \E s \in RefShapes : red_band = Const(s[1], s[2], 1)
          /\ \E s \in RefShapes : nir_band = Const(s[1], s[2], 2)
          /\ \E s \in SrcShapes : swir_band = Const(s[1], s[2], 5)
    /\ swir = None /\ bui_ndvi = None /\ ndbi = None /\ bui = None
    /\ bui_file = None /\ uerr = "none" /\ upc = "start"

UrbIdle ==
    /\ red_band = None /\ nir_band = None /\ swir_band = None
    /\ swir = None /\ bui_ndvi = None /\ ndbi = None /\ bui = None
    /\ bui_file = None /\ uerr = "none" /\ upc = "idle"

\* calculate_built_up_index: read Red and NIR as they are, resample SWIR onto NIR,
\* compute NDVI, NDBI and BUI = NDBI - NDVI, write BUI with the profile of Red
CalculateBuiltUpIndex ==
    /\ upc = "start"
    /\ LET red_a == AsFloat32(red_band)
           nir_a == AsFloat32(nir_band)
           swir_a == AsFloat32(resample_to_match(swir_band, nir_band))
       IN  /\ swir' = swir_a
           /\ IF ~Broadcastable(Shape(nir_a), Shape(red_a))
              THEN /\ uerr' = "ValueError"
                   /\ upc' = "failed"
                   /\ UNCHANGED <<bui_ndvi, ndbi, bui, bui_file>>
              ELSE LET v == NormDiffArray(nir_a, red_a)
                       b == NormDiffArray(swir_a, nir_a)
                       d == ArrayDiff(v, b)
                   IN  /\ bui_ndvi' = v
                       /\ ndbi' = b
                       /\ \/ /\ bui_file' = d
                             /\ bui' = d
                             /\ uerr' = "none"
                             /\ upc' = "done"
                          \* the index does not fit the profile of Red: the
                          \* write may be refused
                          \/ /\ Shape(d) # Shape(red_a)
                             /\ uerr' = "ValueError"
                             /\ upc' = "failed"
                             /\ UNCHANGED <<bui, bui_file>>
    /\ UNCHANGED <<red_band, nir_band, swir_band>>

----------------------------------------------------------------------------
(* urban_extraction.resample_to_match as an operation of its own *)

\* the source files: rasters of two shapes with every pixel varied, and constant
\* rasters of every shape; the match file matters by its shape only
AlnInit ==
    /\ \/ src_grid \in IntRasters(1, 2, UrbVals)
       \/ src_grid \in IntRasters(2, 2, UrbVals)
       \/ \E s \in SrcShapes : src_grid = Const(s[1], s[2], 5)
    /\ \E s \in RefShapes : match_grid = Const(s[1], s[2], 0)
    /\ aligned = None
    /\ apc = "start"

AlnIdle ==
    /\ src_grid = None /\ match_grid = None /\ aligned = None /\ apc = "idle"

\* resample_to_match(src_path, match_path)
ResampleToMatch ==
    /\ apc = "start"
    /\ aligned' = resample_to_match(src_grid, match_grid)
    /\ apc' = "aligned"
    /\ UNCHANGED <<src_grid, match_grid>>

\* the returned array is stored as a band file and resampled onto the same
\* match file once more
ResampleAgain ==
    /\ apc = "aligned"
    /\ src_grid' = aligned
    /\ aligned' = resample_to_match(aligned, match_grid)
    /\ apc' = "realigned"
    /\ UNCHANGED match_grid

----------------------------------------------------------------------------
(* Statistics: calculate_urban_statistics, calculate_change_statistics and the
   class distribution printed by land_cover_classification.main *)

\* np.unique(a, return_counts=True) on a raster: the distinct values and, for
\* each, the number of cells holding it
Unique(r) == {r[p[1]][p[2]] : p \in Pixels(r)}
CountOf(r, v) == Cardinality({p \in Pixels(r) : r[p[1]][p[2]] = v})
\* the same on a one-dimensional array
UniqueSeq(q) == {q[i] : i \in 1..Len(q)}
CountSeq(q, v) == Cardinality({i \in 1..Len(q) : q[i] = v})
\* np.sum(counts) and array.size
Size(r) == Height(r) * Width(r)

\* (count / total) * 100
PercentageUnscaled(count, total) == Rat(count, total)
Percentage(count, total) == Rat(100 * count, total)

\* (count * pixel_area_m2) / 1e6
SQM_PER_KM2 == 1000000
AreaKm2(count, area) == Rat(count * area, SQM_PER_KM2)

\* the default of pixel_area_m2
DEFAULT_PIXEL_AREA == 100

\* calculate_urban_statistics: one line per distinct class of the mask
calculate_urban_statistics(urban_mask, area) ==
    LET total_pixels == Size(urban_mask)
    IN  [v \in Unique(urban_mask) |->
            [count |-> CountOf(urban_mask, v),
             percentage |-> Percentage(CountOf(urban_mask, v), total_pixels),
             area_km2 |-> AreaKm2(CountOf(urban_mask, v), area)]]

\* calculate_change_statistics, change classification: one line per distinct class
change_classification_lines(chg) ==
    LET total_pixels == Size(chg)
    IN  [v \in Unique(chg) |->
            [count |-> CountOf(chg, v),
             percentage |-> Percentage(CountOf(chg, v), total_pixels)]]

\* np.sum(change_matrix)
RECURSIVE SumRow(_, _)
SumRow(row, n) == IF n = 0 THEN 0 ELSE SumRow(row, n - 1) + row[n]
RECURSIVE SumRaster(_, _)
SumRaster(r, n) == IF n = 0 THEN 0 ELSE SumRaster(r, n - 1) + SumRow(r[n], Len(r[n]))

\* calculate_change_statistics, classification changes
classification_changes_lines(m) ==
    LET changed_pixels == SumRaster(m, Height(m))
        total_pixels_class == Size(m)
    IN  [changed |-> changed_pixels,
         unchanged |-> total_pixels_class - changed_pixels,
         change_percentage |-> Percentage(changed_pixels, total_pixels_class)]

\* main of land_cover_classification: unique, counts = np.unique(labels, ...),
\* one line "Class {class_id + 1}" per distinct cluster id, in per cent of len(labels)
class_distribution(lab) ==
    [v \in {c + 1 : c \in UniqueSeq(lab)} |->
        [count |-> CountSeq(lab, v - 1),
         percentage |-> Percentage(CountSeq(lab, v - 1), Len(lab))]]

NoReport == <<>>
StatMasks == [1..3 -> BOOLEAN]

StaInit ==
    /\ \/ /\ sta_kind = "urban"
          /\ sta_raster \in IntRasters(2, 2, 0..MaxLabel)
          /\ pixel_area_m2 \in {DEFAULT_PIXEL_AREA, 4 * DEFAULT_PIXEL_AREA}
          /\ sta_matrix = None /\ sta_valid = <<>> /\ sta_labels = <<>>
       \/ /\ sta_kind = "change"
          /\ sta_raster \in IntRasters(1, 2, 0..3)
          /\ sta_matrix \in {None} \cup IntRasters(1, 2, 0..1)
          /\ pixel_area_m2 = 0 /\ sta_valid = <<>> /\ sta_labels = <<>>
       \/ /\ sta_kind = "labels"
          /\ sta_valid \in StatMasks
          /\ CountTrue(sta_valid, 3) > 0
          /\ sta_labels \in [1..CountTrue(sta_valid, 3) -> 0..(MaxLabel - 1)]
          /\ sta_raster = FullMap(sta_labels, sta_valid, <<1, 3>>)
          /\ pixel_area_m2 = 0 /\ sta_matrix = None
    /\ report = NoReport /\ matrix_report = NoReport
    /\ spc = "start"

StaIdle ==
    /\ sta_kind = "none" /\ sta_raster = None /\ sta_matrix = None
    /\ sta_valid = <<>> /\ sta_labels = <<>> /\ pixel_area_m2 = 0
    /\ report = NoReport /\ matrix_report = NoReport /\ spc = "idle"

UrbanStatistics ==
    /\ spc = "start" /\ sta_kind = "urban"
    /\ report' = calculate_urban_statistics(sta_raster, pixel_area_m2)
    /\ spc' = "done"
    /\ UNCHANGED <<sta_kind, sta_raster, sta_matrix, sta_valid, sta_labels,
                   pixel_area_m2, matrix_report>>

ChangeStatistics ==
    /\ spc = "start" /\ sta_kind = "change"
    /\ report' = change_classification_lines(sta_raster)
    /\ matrix_report' = IF sta_matrix # None
                        THEN classification_changes_lines(sta_matrix)
                        ELSE NoReport
    /\ spc' = "done"
    /\ UNCHANGED <<sta_kind, sta_raster, sta_matrix, sta_valid, sta_labels,
                   pixel_area_m2>>

ClassDistribution ==
    /\ spc = "start" /\ sta_kind = "labels"
    /\ report' = class_distribution(sta_labels)
    /\ spc' = "done"
    /\ UNCHANGED <<sta_kind, sta_raster, sta_matrix, sta_valid, sta_labels,
                   pixel_area_m2, matrix_report>>

----------------------------------------------------------------------------
(* The per-year loops of calculate_ndvi.main, land_cover_classification.main and
   urban_extraction.main.  The band files that are present are well-formed scenes:
   processing a year whose bands are all there succeeds and writes its outputs. *)

\* years = ['2021', '2025']
years == <<"2021", "2025">>
Bands == {"B2", "B3", "B4", "B8", "B11"}

\* the band files a script checks for before it processes a year
RequiredBands(script) ==
    CASE script = "ndvi" -> {"B4", "B8"}
      [] script = "classification" -> {"B2", "B3", "B4", "B8"}
      [] script = "urban" -> {"B4", "B8", "B11"}

\* the rasters a script writes for a year it processes
OutputsOf(script) ==
    CASE script = "ndvi" -> {"ndvi"}
      [] script = "classification" -> {"classification"}
      [] script = "urban" -> {"bui", "urban_areas"}

\* Path(p).exists() for every band of the year
Complete(script, y) == \A b \in RequiredBands(script) : <<y, b>> \in ys_present

YsInit ==
    /\ ys_script \in {"ndvi", "classification", "urban"}
    /\ ys_present \in SUBSET ({years[1], years[2]} \X Bands)
    /\ ys_roi \in BOOLEAN
    /\ ys_year = 1
    /\ ys_written = {} /\ ys_skipped = {}
    /\ ys_err = "none" /\ ys_pc = "loop"

YsIdle ==
    /\ ys_script = "none" /\ ys_present = {} /\ ys_roi = FALSE /\ ys_year = 0
    /\ ys_written = {} /\ ys_skipped = {} /\ ys_err = "none" /\ ys_pc = "idle"

\* where main goes after the body of the loop: the next year, or past the loop;
\* only calculate_ndvi.main has statements after the loop
AfterYear ==
    /\ ys_year' = ys_year + 1
    /\ ys_pc' = IF ys_year < Len(years) THEN "loop"
                ELSE IF ys_script = "ndvi" THEN "epilogue" ELSE "done"

\* a band of the year is missing: print the warning and continue
SkipYear ==
    /\ ys_pc = "loop" /\ ys_year <= Len(years)
    /\ ~Complete(ys_script, years[ys_year])
    /\ ys_skipped' = ys_skipped \cup {years[ys_year]}
    /\ AfterYear
    /\ UNCHANGED <<ys_script, ys_present, ys_roi, ys_written, ys_err>>

\* all bands of the year are there: compute and write the outputs of the year
ProcessYear ==
    /\ ys_pc = "loop" /\ ys_year <= Len(years)
    /\ Complete(ys_script, years[ys_year])
    /\ ys_written' = ys_written \cup (OutputsOf(ys_script) \X {years[ys_year]})
    /\ AfterYear
    /\ UNCHANGED <<ys_script, ys_present, ys_roi, ys_skipped, ys_err>>

\* calculate_ndvi.main after the loop: open data/2021/B2.tif, read the shapefile
\* of data/roi, open data/2021/B2.tif again, read the shapefile again
NdviEpilogue ==
    /\ ys_pc = "epilogue"
    /\ IF <<years[1], "B2">> \notin ys_present
       THEN ys_err' = "RasterioIOError" /\ ys_pc' = "failed"
       ELSE IF ~ys_roi
       THEN ys_err' = "DriverError" /\ ys_pc' = "failed"
       ELSE ys_err' = "none" /\ ys_pc' = "done"
    /\ UNCHANGED <<ys_script, ys_present, ys_roi, ys_year, ys_written, ys_skipped>>

----------------------------------------------------------------------------
(* run_all_analyses.py *)

\* analyses: the scripts and their descriptions, in the order main runs them
analyses == << [script |-> "calculate_ndvi.py", description |-> "NDVI Calculation"],
               [script |-> "land_cover_classification.py",
                description |-> "Land Cover Classification"],
               [script |-> "change_detection.py", description |-> "Change Detection"],
               [script |-> "urban_extraction.py", description |-> "Urban Area Extraction"] >>

\* how a child process can end: exit status 0, a non-zero exit status
\* (CalledProcessError, which a missing script file gives too), or the
\* interpreter not found (FileNotFoundError)
Outcomes == {"ok", "nonzero", "notfound"}

\* run_script: True when subprocess.run returned, False in both except branches
Success(outcome) == outcome = "ok"

\* the loop of main after one analysis: a failure prints a warning and the loop
\* goes on with the next analysis
AfterRunStopOnFailure(i, success) == IF success THEN i + 1 ELSE Len(analyses) + 1
AfterRun(i, success) == i + 1

\* sum(results.values())
RECURSIVE CountSuccess(_, _)
CountSuccess(res, keys) ==
    IF keys = {} THEN 0
    ELSE LET k == CHOOSE k \in keys : TRUE
         IN  (IF res[k] THEN 1 ELSE 0) + CountSuccess(res, keys \ {k})

NoResults == <<>>

RunInit ==
    /\ rn_missing \in BOOLEAN
    /\ rn_i = 1
    /\ rn_log = <<>>
    /\ results = NoResults
    /\ successful = 0
    /\ rn_pc = "check"

RunIdle ==
    /\ rn_missing = FALSE /\ rn_i = 0 /\ rn_log = <<>> /\ results = NoResults
    /\ successful = 0 /\ rn_pc = "idle"

\* main: check_dependencies; a missing package ends main before any analysis
CheckDependencies ==
    /\ rn_pc = "check"
    /\ rn_pc' = IF rn_missing THEN "returned" ELSE "loop"
    /\ UNCHANGED <<rn_missing, rn_i, rn_log, results, successful>>

\* run_script: subprocess.run starts the child process and waits for it
StartScript ==
    /\ rn_pc = "loop" /\ rn_i <= Len(analyses)
    /\ rn_log' = Append(rn_log, [ev |-> "start", script |-> analyses[rn_i].script,
                                 outcome |-> "none"])
    /\ rn_pc' = "running"
    /\ UNCHANGED <<rn_missing, rn_i, results, successful>>

\* the child process has ended: run_script returns, main records the result
FinishScript ==
    /\ rn_pc = "running"
    /\ \E o \in Outcomes :
          /\ rn_log' = Append(rn_log, [ev |-> "end", script |-> analyses[rn_i].script,
                                       outcome |-> o])
          /\ results' = [d \in DOMAIN results \cup {analyses[rn_i].description} |->
                            IF d = analyses[rn_i].description THEN Success(o)
                            ELSE results[d]]
          /\ rn_i' = AfterRun(rn_i, Success(o))
    /\ rn_pc' = "loop"
    /\ UNCHANGED <<rn_missing, successful>>

\* main after the loop: the summary
Summary ==
    /\ rn_pc = "loop" /\ rn_i > Len(analyses)
    /\ successful' = CountSuccess(results, DOMAIN results)
    /\ rn_pc' = "done"
    /\ UNCHANGED <<rn_missing, rn_i, rn_log, results>>

----------------------------------------------------------------------------
(* urban_extraction.py: extract_urban_areas, save_urban_areas *)

\* the default arguments ndvi_threshold=0.3 and bui_threshold=0.1
NDVI_THRESHOLD == Rat(3, 10)
BUI_THRESHOLD == Rat(1, 10)

\* the classes written by the four masked assignments, in the order of the source
URBAN == 1
VEGETATION == 2
WATER == 3
BARE_SOIL == 4
SourceOrder == <<URBAN, VEGETATION, WATER, BARE_SOIL>>

\* (ndvi < ndvi_threshold) & (bui > bui_threshold)
IsUrban(nd, bu, ndvi_threshold, bui_threshold) ==
    FLt(nd, ndvi_threshold) /\ FGt(bu, bui_threshold)

\* ndvi > 0.4
IsVegetation(nd) == FGt(nd, Rat(4, 10))

\* (ndvi < 0.1) & (bui < 0.05)
IsWater(nd, bu) == FLt(nd, Rat(1, 10)) /\ FLt(bu, Rat(5, 100))

\* the bare-soil mask without its test of the class assigned so far
IsBareSoilUnguarded(nd, bu, cur) == FLt(nd, Rat(2, 10)) /\ FLt(bu, Rat(1, 10))

\* (ndvi < 0.2) & (bui < 0.1) & (urban_mask == 0)
IsBareSoil(nd, bu, cur) == FLt(nd, Rat(2, 10)) /\ FLt(bu, Rat(1, 10)) /\ cur = 0

\* the boolean mask of the assignment of class k at one pixel
MaskOf(k, nd, bu, cur, ndvi_threshold, bui_threshold) ==
    CASE k = URBAN      -> IsUrban(nd, bu, ndvi_threshold, bui_threshold)
      [] k = VEGETATION -> IsVegetation(nd)
      [] k = WATER      -> IsWater(nd, bu)
      [] k = BARE_SOIL  -> IsBareSoil(nd, bu, cur)

\* urban_mask[<mask of class k>] = k : the mask is computed from the arrays as
\* they are before the assignment, then class k is stored where it is true
MaskedAssign(k, mask, nd, bu, ndvi_threshold, bui_threshold) ==
    [y \in 1..Height(mask) |-> [x \in 1..Width(mask) |->
        IF MaskOf(k, nd[y][x], bu[y][x], mask[y][x], ndvi_threshold, bui_threshold)
        THEN k ELSE mask[y][x]]]

RECURSIVE AssignAll(_, _, _, _, _, _)
AssignAll(order, mask, nd, bu, ndvi_threshold, bui_threshold) ==
    IF order = <<>> THEN mask
    ELSE AssignAll(Tail(order),
                   MaskedAssign(Head(order), mask, nd, bu, ndvi_threshold,
                                bui_threshold),
                   nd, bu, ndvi_threshold, bui_threshold)

\* np.zeros_like(ndvi, dtype=np.uint8), then the four assignments in source order
extract_urban_areas(nd, bu, ndvi_threshold, bui_threshold) ==
    AssignAll(SourceOrder, Const(Height(nd), Width(nd), 0), nd, bu,
              ndvi_threshold, bui_threshold)

\* np.where(urban_mask == 1, 1, 0).astype(np.uint8)
urban_binary(mask) ==
    [y \in 1..Height(mask) |-> [x \in 1..Width(mask) |->
        Uint8(np_where(mask[y][x] = 1, 1, 0))]]

\* index values on every side of every threshold of the four masks, and NaN
ExNdviVals == {FNaN, Rat(-1, 2), FZero, Rat(1, 10), Rat(15, 100), Rat(2, 10),
               Rat(25, 100), Rat(3, 10), Rat(35, 100), Rat(4, 10), Rat(1, 2)}
ExBuiVals == {FNaN, Rat(-1, 2), FZero, Rat(5, 100), Rat(7, 100), Rat(1, 10),
              Rat(2, 10)}

\* main passes the ndvi and bui of calculate_built_up_index, which have one shape,
\* and a copy of the profile of the Red band file
ExtInit ==
    /\ ex_ndvi \in [1..1 -> [1..2 -> ExNdviVals]]
    /\ ex_bui \in [1..1 -> [1..2 -> ExBuiVals]]
    /\ \E geo \in GeoRefs : ex_profile = FileProfile(geo, ex_ndvi)
    /\ ex_urban_mask = None /\ urban_file = None /\ epc = "start"

ExtIdle ==
    /\ ex_ndvi = None /\ ex_bui = None /\ ex_urban_mask = None
    /\ ex_profile = NoProfile /\ urban_file = None /\ epc = "idle"

\* urban_mask = extract_urban_areas(ndvi, bui), in main
ExtractUrbanAreas ==
    /\ epc = "start"
    /\ ex_urban_mask' = extract_urban_areas(ex_ndvi, ex_bui, NDVI_THRESHOLD,
                                            BUI_THRESHOLD)
    /\ epc' = "extracted"
    /\ UNCHANGED <<ex_ndvi, ex_bui, ex_profile, urban_file>>

\* save_urban_areas(urban_mask, urban_output, profile): the binary raster is
\* written as band 1 under the profile, which is updated in place
SaveUrbanAreas ==
    /\ epc = "extracted"
    /\ ex_profile' = LabelProfile(ex_profile)
    /\ urban_file' = urban_binary(ex_urban_mask)
    /\ epc' = "saved"
    /\ UNCHANGED <<ex_ndvi, ex_bui, ex_urban_mask>>

----------------------------------------------------------------------------
(* Specifications *)

\* what a specification of one script leaves alone: the variables of the others,
\* which stay at their idle values
othersIdx == <<chgVars, clsVars, urbVars, alnVars, staVars, ysVars, runVars, extVars>>
othersChg == <<idxVars, clsVars, urbVars, alnVars, staVars, ysVars, runVars, extVars>>
othersCls == <<idxVars, chgVars, urbVars, alnVars, staVars, ysVars, runVars, extVars>>
othersUrb == <<idxVars, chgVars, clsVars, alnVars, staVars, ysVars, runVars, extVars>>
othersAln == <<idxVars, chgVars, clsVars, urbVars, staVars, ysVars, runVars, extVars>>
othersSta == <<idxVars, chgVars, clsVars, urbVars, alnVars, ysVars, runVars, extVars>>
othersYs == <<idxVars, chgVars, clsVars, urbVars, alnVars, staVars, runVars, extVars>>
othersRun == <<idxVars, chgVars, clsVars, urbVars, alnVars, staVars, ysVars, extVars>>
othersExt == <<idxVars, chgVars, clsVars, urbVars, alnVars, staVars, ysVars, runVars>>
IdleButIdx == ChgIdle /\ ClsIdle /\ UrbIdle /\ AlnIdle /\ StaIdle /\ YsIdle /\ RunIdle /\ ExtIdle
IdleButChg == IdxIdle /\ ClsIdle /\ UrbIdle /\ AlnIdle /\ StaIdle /\ YsIdle /\ RunIdle /\ ExtIdle
IdleButCls == IdxIdle /\ ChgIdle /\ UrbIdle /\ AlnIdle /\ StaIdle /\ YsIdle /\ RunIdle /\ ExtIdle
IdleButUrb == IdxIdle /\ ChgIdle /\ ClsIdle /\ AlnIdle /\ StaIdle /\ YsIdle /\ RunIdle /\ ExtIdle
IdleButAln == IdxIdle /\ ChgIdle /\ ClsIdle /\ UrbIdle /\ StaIdle /\ YsIdle /\ RunIdle /\ ExtIdle
IdleButSta == IdxIdle /\ ChgIdle /\ ClsIdle /\ UrbIdle /\ AlnIdle /\ YsIdle /\ RunIdle /\ ExtIdle
IdleButYs == IdxIdle /\ ChgIdle /\ ClsIdle /\ UrbIdle /\ AlnIdle /\ StaIdle /\ RunIdle /\ ExtIdle
IdleButRun == IdxIdle /\ ChgIdle /\ ClsIdle /\ UrbIdle /\ AlnIdle /\ StaIdle /\ YsIdle /\ ExtIdle
IdleButExt == IdxIdle /\ ChgIdle /\ ClsIdle /\ UrbIdle /\ AlnIdle /\ StaIdle /\ YsIdle /\ RunIdle

\* calculate_ndvi on one pair of band files
InitIndex == IdxInit /\ IdleButIdx
NextIndex == CalcNdvi /\ UNCHANGED othersIdx
SpecIndex == InitIndex /\ [][NextIndex]_vars

\* change_detection.main
InitChange == ChgInit /\ IdleButChg
NextChange ==
    \/ NdviDifference /\ UNCHANGED othersChg
    \/ ClassifyChanges /\ UNCHANGED othersChg
    \/ CompareClassifications /\ UNCHANGED othersChg
SpecChange == InitChange /\ [][NextChange]_vars

\* prepare_classification_data on one year's band files
InitWindow == WinInit /\ IdleButCls
NextWindow == Prepare /\ UNCHANGED othersCls
SpecWindow == InitWindow /\ [][NextWindow]_vars

\* create_classification_map on its arguments
InitMap == MapInit /\ IdleButCls
NextMap == CreateMap /\ UNCHANGED othersCls
SpecMap == InitMap /\ [][NextMap]_vars

\* land_cover_classification.main over the two years
InitClassify == ClsInit /\ IdleButCls
NextClassify ==
    \/ Prepare /\ UNCHANGED othersCls
    \/ SkipNoData /\ UNCHANGED othersCls
    \/ Perform /\ UNCHANGED othersCls
    \/ CreateMap /\ UNCHANGED othersCls
    \/ NextYear /\ UNCHANGED othersCls
SpecClassify == InitClassify /\ [][NextClassify]_vars

\* urban_extraction.calculate_built_up_index on one scene's band files
InitUrban == UrbInit /\ IdleButUrb
NextUrban == CalculateBuiltUpIndex /\ UNCHANGED othersUrb
SpecUrban == InitUrban /\ [][NextUrban]_vars

\* the two index calculators, calculate_ndvi and calculate_built_up_index, each on
\* band files of its own
InitIndices == (IdxInit /\ IdleButIdx) \/ (UrbInit /\ IdleButUrb)
NextIndices ==
    \/ CalcNdvi /\ UNCHANGED othersIdx
    \/ CalculateBuiltUpIndex /\ UNCHANGED othersUrb
SpecIndices == InitIndices /\ [][NextIndices]_vars

\* resample_to_match on one source file and one match file, twice in a row
InitAlign == AlnInit /\ IdleButAln
NextAlign ==
    \/ ResampleToMatch /\ UNCHANGED othersAln
    \/ ResampleAgain /\ UNCHANGED othersAln
SpecAlign == InitAlign /\ [][NextAlign]_vars

\* the three statistics reports, each on its own arguments
InitStats == StaInit /\ IdleButSta
NextStats ==
    \/ UrbanStatistics /\ UNCHANGED othersSta
    \/ ChangeStatistics /\ UNCHANGED othersSta
    \/ ClassDistribution /\ UNCHANGED othersSta
SpecStats == InitStats /\ [][NextStats]_vars

\* main of one of the three per-year scripts over the band files on disk
InitYears == YsInit /\ IdleButYs
NextYears ==
    \/ SkipYear /\ UNCHANGED othersYs
    \/ ProcessYear /\ UNCHANGED othersYs
    \/ NdviEpilogue /\ UNCHANGED othersYs
SpecYears == InitYears /\ [][NextYears]_vars

\* run_all_analyses.main
InitRun == RunInit /\ IdleButRun
NextRun ==
    \/ CheckDependencies /\ UNCHANGED othersRun
    \/ StartScript /\ UNCHANGED othersRun
    \/ FinishScript /\ UNCHANGED othersRun
    \/ Summary /\ UNCHANGED othersRun
SpecRun == InitRun /\ [][NextRun]_vars

\* extract_urban_areas and save_urban_areas as main calls them for one year
InitExtract == ExtInit /\ IdleButExt
NextExtract ==
    \/ ExtractUrbanAreas /\ UNCHANGED othersExt
    \/ SaveUrbanAreas /\ UNCHANGED othersExt
SpecExtract == InitExtract /\ [][NextExtract]_vars

----------------------------------------------------------------------------
(* Claims *)

\* C1 (as stated): after calculate_ndvi, every pixel of the index is
\* (nir - red) / (nir + red) when nir + red != 0 and exactly 0 when nir + red == 0,
\* and no pixel of the index is not-a-number.
C1_IndexNeverNaN ==
    ipc = "done" =>
        \A p \in Pixels(ndvi) :
            LET a == nir[p[1]][p[2]]
                b == red[p[1]][p[2]]
                v == ndvi[p[1]][p[2]]
            IN  /\ ~IsNaN(v)
                /\ FEq(FAdd(a, b), FZero) => v = FZero
                /\ FNe(FAdd(a, b), FZero) => v = FDiv(FSub(a, b), FAdd(a, b))

\* C1, the part that holds: on band values that are numbers the index is the
\* quotient, or 0 on a zero sum, and is a finite number.
C1_IndexOnNumbers ==
    ipc = "done" =>
        \A p \in Pixels(ndvi) :
            LET a == nir[p[1]][p[2]]
                b == red[p[1]][p[2]]
                v == ndvi[p[1]][p[2]]
            IN  (IsFinite(a) /\ IsFinite(b)) =>
                    /\ IsFinite(v)
                    /\ (a.n + b.n = 0) => v = FZero
                    /\ (a.n + b.n # 0) => v = Rat(a.n - b.n, a.n + b.n)

C3_TransitionIsInequality ==
    (cpc = "done" /\ Shape(class_2021) = Shape(class_2025)) =>
        /\ Shape(change_matrix) = Shape(class_2021)
        /\ \A p \in Pixels(change_matrix) :
            LET a == class_2021[p[1]][p[2]]
                b == class_2025[p[1]][p[2]]
                m == change_matrix[p[1]][p[2]]
            IN  /\ m \in {0, 1}
                /\ m = 1 <=> a # b
                /\ m = 0 <=> a = b
        /\ change_matrix = compare_arrays(class_2025, class_2021)

\* C3 witness: 2021 labels (1, 2) against 2025 labels (2, 2) give (1, 0), a changed
\* pixel whose label rose and an unchanged one.
C3_Witness ==
    /\ cpc = "done"
    /\ Shape(class_2021) = <<1, MaxW>> /\ Shape(class_2025) = <<1, MaxW>>
    /\ class_2021[1][1] = 1 /\ class_2025[1][1] = 2 /\ change_matrix[1][1] = 1
    /\ class_2021[1][2] = 2 /\ class_2025[1][2] = 2 /\ change_matrix[1][2] = 0

\* C7 (as stated): whenever the two inputs of an operation differ in shape the
\* operation fails: it returns no raster and writes no file.
C7_ShapeMismatchFails ==
    /\ (cpc # "start" /\ Shape(ndvi_2021) # Shape(ndvi_2025)) =>
            /\ cerr # "none"
            /\ ndvi_diff = None
            /\ "ndvi_difference.tif" \notin written
    /\ (class_2021 # None /\ Shape(class_2021) # Shape(class_2025)) =>
            /\ change_matrix = None
            /\ "classification_changes.tif" \notin written
            /\ cpc = "done" => cerr # "none"

\* the band values of window pixel (r, c) of the year's files, in band order
WindowPixel(r, c) ==
    [b \in 1..Len(stacks[year]) |-> stacks[year][b][window.y1 + r][window.x1 + c]]
\* the flat (row-major) position of window pixel (r, c)
FlatPos(r, c) == (r - 1) * original_shape[2] + c

\* C4 (as stated): create_classification_map labels every invalid pixel 0 and every
\* valid pixel its cluster id + 1, in mask order: labels lie in 0..N, a pixel is 0
\* iff it is invalid, and as many labels are non-zero as pixels are valid.
C4_LabelIsIdPlusOne ==
    kpc = "mapped" =>
        /\ Shape(classification_map) = original_shape
        /\ \A r \in 1..original_shape[1], c \in 1..original_shape[2] :
            LET p == FlatPos(r, c)
                v == classification_map[r][c]
            IN  /\ v \in 0..n_clusters
                /\ ~valid_pixels[p] => v = 0
                /\ valid_pixels[p] => v = labels[CountTrue(valid_pixels, p)] + 1
                /\ v = 0 <=> ~valid_pixels[p]
        /\ Cardinality({q \in Pixels(classification_map) : classification_map[q[1]][q[2]] # 0})
              = CountTrue(valid_pixels, Len(valid_pixels))

C8_WindowCentredAndInside ==
    kpc = "prepared" =>
        LET h == Height(stacks[year][1])
            w == Width(stacks[year][1])
            cy == h \div 2
            cx == w \div 2
            half == window_size \div 2
        IN  /\ 0 <= window.y1 /\ window.y1 <= window.y2 /\ window.y2 <= h
            /\ 0 <= window.x1 /\ window.x1 <= window.x2 /\ window.x2 <= w
            /\ window.y1 <= cy /\ cy <= window.y2
            /\ window.x1 <= cx /\ cx <= window.x2
            /\ cy - window.y1 = Min(half, cy) /\ window.y2 - cy = Min(half, h - cy)
            /\ cx - window.x1 = Min(half, cx) /\ window.x2 - cx = Min(half, w - cx)
            /\ original_shape = <<window.y2 - window.y1, window.x2 - window.x1>>
            /\ kerr = "none"

\* C8 witness: a window clamped at the top edge and at the right edge (the request
\* reaches past both) of a grid with more than one row.
C8_Witness ==
    /\ kpc = "prepared"
    /\ Height(stacks[year][1]) > 1
    /\ window_size \div 2 > Height(stacks[year][1]) \div 2
    /\ window.y1 = 0
    /\ window.x2 = Width(stacks[year][1])
    /\ Width(stacks[year][1]) \div 2 + window_size \div 2 > Width(stacks[year][1])

\* C9 (as stated): the profile returned with the crop carries the window's height
\* and width and an origin shifted by the window's offset (x1, y1).
C9_ProfileOriginShifted ==
    kpc = "prepared" =>
        profile = ShiftedProfile(FileProfile(srcProfile, stacks[year][1]), window)

\* C10 (as stated): resample_to_match returns an array of exactly the shape of the
\* reference, a constant source stays constant, and calculate_built_up_index
\* combines SWIR, NIR and Red arrays of one common shape.
C10_AlignedToOneShape ==
    upc # "start" /\ upc # "idle" =>
        /\ Shape(swir) = Shape(nir_band)
        /\ \A c \in UrbVals \cup {5} :
              swir_band = Const(Height(swir_band), Width(swir_band), c)
                  => swir = Const(Height(nir_band), Width(nir_band), FInt(c))
        /\ Shape(red_band) = Shape(nir_band)

\* C10 (what holds): resample_to_match returns an array of exactly the shape of
\* the reference (NIR) whatever the shape of the source, and a constant source
\* stays constant; the Red band enters the index at the shape of its own file.
C10_ResampledToReference ==
    upc # "start" /\ upc # "idle" =>
        /\ Shape(swir) = Shape(nir_band)
        /\ \A c \in UrbVals \cup {5} :
              swir_band = Const(Height(swir_band), Width(swir_band), c)
                  => swir = Const(Height(nir_band), Width(nir_band), FInt(c))
        /\ upc = "done" =>
              Shape(bui_ndvi) = BroadcastShape(Shape(nir_band), Shape(red_band))

\* C10 scenario: a constant-5 SWIR band of twice the reference's height and width
\* is resampled onto the reference of MaxH x MaxW and stays constant 5.
C10_Scenario ==
    /\ upc = "done"
    /\ Shape(nir_band) = <<MaxH, MaxW>>
    /\ Shape(swir_band) = <<2 * MaxH, 2 * MaxW>>
    /\ swir_band = Const(2 * MaxH, 2 * MaxW, 5)
    /\ swir = Const(MaxH, MaxW, FInt(5))

\* C10 failing input: a Red file of one pixel against a NIR file of MaxH x MaxW;
\* the index is computed by broadcasting Red and the run ends without an error.
C10_RedNotAligned ==
    /\ upc = "done"
    /\ Shape(red_band) = <<1, 1>>
    /\ Shape(nir_band) = <<MaxH, MaxW>>
    /\ Shape(bui) = <<MaxH, MaxW>>

\* C11: aligning a grid that already has the shape of the reference returns the
\* grid itself, pixel for pixel, and aligning the output of an alignment onto the
\* same reference again returns that output unchanged.
C11_AlignmentIdempotent ==
    /\ (apc = "aligned" /\ Shape(src_grid) = Shape(match_grid)) => aligned = src_grid
    /\ apc = "realigned" => aligned = src_grid

\* C11 witness: a 2 x 2 grid with differing pixels, already at the shape of the
\* reference, has been aligned and aligned again.
C11_Witness ==
    /\ apc = "realigned"
    /\ Shape(src_grid) = <<2, 2>> /\ Shape(match_grid) = <<2, 2>>
    /\ src_grid[1][1] # src_grid[1][2] /\ src_grid[1][1] # src_grid[2][1]
    /\ aligned = src_grid

\* the sum of the counts of all lines of a report
RECURSIVE SumCounts(_, _)
SumCounts(rep, keys) ==
    IF keys = {} THEN 0
    ELSE LET k == CHOOSE k \in keys : TRUE
         IN  rep[k].count + SumCounts(rep, keys \ {k})

RasterOf(file) ==
    CASE file = "ndvi_difference.tif" -> ndvi_diff
      [] file = "changes.tif" -> changes
      [] file = "classification_changes.tif" -> change_matrix

\* a pixel of a written raster is valid when the input pixels it was computed
\* from are: numbers for the NDVI rasters, non-zero labels for the label maps
ValidIn(file, y, x) ==
    IF file = "classification_changes.tif"
    THEN BAt(class_2021, y, x) # 0 /\ BAt(class_2025, y, x) # 0
    ELSE ~IsNaN(BAt(ndvi_2021, y, x)) /\ ~IsNaN(BAt(ndvi_2025, y, x))

\* C13 (as stated): in every raster written, the nodata value declared in the
\* metadata is not the value of any valid pixel: -9999 is outside the range of the
\* index and 0 is never the value of a valid pixel of a categorical raster.
C13_NodataNeverValid ==
    \A d \in nodata_of :
        \A p \in Pixels(RasterOf(d.file)) :
            ValidIn(d.file, p[1], p[2]) =>
                RasterOf(d.file)[p[1]][p[2]]
                    # (IF d.file = "ndvi_difference.tif" THEN FInt(d.nodata) ELSE d.nodata)

\* C13 (what holds): the NDVI difference and the change classes never hold
\* their nodata value on a valid pixel.
C13_IndexNodataNeverValid ==
    \A d \in nodata_of :
        d.file # "classification_changes.tif" =>
            \A p \in Pixels(RasterOf(d.file)) :
                ValidIn(d.file, p[1], p[2]) =>
                    RasterOf(d.file)[p[1]][p[2]]
                        # (IF d.file = "ndvi_difference.tif" THEN FInt(d.nodata) ELSE d.nodata)

\* C14 (as stated): when a per-year script has ended, every year with a missing
\* band was skipped with a notice and has no output, every year whose bands are
\* all present has its outputs written, and the script has not ended in failure
\* whatever band files are missing.
C14_MissingYearIsolated ==
    (ys_pc = "done" \/ ys_pc = "failed") =>
        /\ \A i \in 1..Len(years) :
              IF Complete(ys_script, years[i])
              THEN OutputsOf(ys_script) \X {years[i]} \subseteq ys_written
              ELSE /\ years[i] \in ys_skipped
                   /\ (OutputsOf(ys_script) \X {years[i]}) \cap ys_written = {}
        /\ ys_roi => ys_pc = "done"

\* C14 (what holds): the loop itself isolates the years: a year with a missing
\* band is skipped with a notice and writes nothing, a complete year is written.
C14_LoopIsolatesYears ==
    (ys_pc = "done" \/ ys_pc = "failed") =>
        \A i \in 1..Len(years) :
            IF Complete(ys_script, years[i])
            THEN OutputsOf(ys_script) \X {years[i]} \subseteq ys_written
            ELSE /\ years[i] \in ys_skipped
                 /\ (OutputsOf(ys_script) \X {years[i]}) \cap ys_written = {}

\* x lies in [-k, k]
Within(x, k) == IsFinite(x) /\ FGe(x, FInt(-k)) /\ FLe(x, FInt(k))
NonNeg(x) == IsFinite(x) /\ x.n >= 0

\* C15: for band values a >= 0 and b >= 0 every normalized difference the code
\* computes lies in [-1, 1], the zero-sum case included, and the built-up index of
\* non-negative Red, NIR and SWIR lies in [-2, 2].
C15_IndexInRange ==
    /\ ipc = "done" =>
          \A p \in Pixels(ndvi) :
              (NonNeg(nir[p[1]][p[2]]) /\ NonNeg(red[p[1]][p[2]]))
                  => Within(ndvi[p[1]][p[2]], 1)
    /\ upc = "done" =>
          \A p \in Pixels(bui) :
              (/\ NonNeg(BAt(AsFloat32(red_band), p[1], p[2]))
               /\ NonNeg(BAt(AsFloat32(nir_band), p[1], p[2]))
               /\ NonNeg(BAt(swir, p[1], p[2])))
                  => /\ Within(BAt(bui_ndvi, p[1], p[2]), 1)
                     /\ Within(BAt(ndbi, p[1], p[2]), 1)
                     /\ Within(bui[p[1]][p[2]], 2)

\* C15 witness: a built-up index that reaches the bound 2 on one pixel (NIR = 0,
\* Red > 0, SWIR > 0) next to a pixel whose two sums are zero.
C15_Witness ==
    /\ upc = "done"
    /\ \E p \in Pixels(bui) :
          /\ bui[p[1]][p[2]] = FInt(2)
          /\ bui_ndvi[p[1]][p[2]] = FInt(-1) /\ ndbi[p[1]][p[2]] = FInt(1)
    /\ \E p \in Pixels(bui) :
          /\ red_band[p[1]][p[2]] = 0 /\ nir_band[p[1]][p[2]] = 0
          /\ swir_band[p[1]][p[2]] = 0
          /\ bui[p[1]][p[2]] = FZero

\* the normalized difference of two numbers with its zero-sum rule, as a rational
ND(a, b) == IF a.n * b.d + b.n * a.d = 0 THEN FZero
            ELSE Rat(a.n * b.d - b.n * a.d, a.n * b.d + b.n * a.d)

\* C16: at every pixel the built-up index returned is NDBI - NDVI with
\* NDBI = ND(SWIR, NIR) and NDVI = ND(NIR, Red), each with its own zero-sum rule:
\* SWIR + NIR = 0 and NIR + Red # 0 give -NDVI, NIR + Red = 0 and SWIR + NIR # 0
\* give NDBI, both sums zero give 0.
C16_BuiltUpIsNdbiMinusNdvi ==
    upc = "done" =>
        \A p \in Pixels(bui) :
            LET s == BAt(swir, p[1], p[2])
                n == BAt(AsFloat32(nir_band), p[1], p[2])
                r == BAt(AsFloat32(red_band), p[1], p[2])
                v == bui[p[1]][p[2]]
            IN  /\ BAt(ndbi, p[1], p[2]) = ND(s, n)
                /\ BAt(bui_ndvi, p[1], p[2]) = ND(n, r)
                /\ v = FSub(ND(s, n), ND(n, r))
                /\ (FAdd(s, n) = FZero /\ FAdd(n, r) # FZero) => v = FNeg(ND(n, r))
                /\ (FAdd(n, r) = FZero /\ FAdd(s, n) # FZero) => v = ND(s, n)
                /\ (FAdd(s, n) = FZero /\ FAdd(n, r) = FZero) => v = FZero

\* C16 witness: an index with a pixel whose SWIR + NIR is zero on non-zero values
\* while NIR + Red is not, and a pixel whose NIR + Red is zero while SWIR + NIR
\* is not.
C16_Witness ==
    /\ upc = "done"
    /\ \E p \in Pixels(bui) :
          /\ swir[p[1]][p[2]] = FInt(1) /\ nir_band[p[1]][p[2]] = -1
          /\ red_band[p[1]][p[2]] = 2
          /\ ndbi[p[1]][p[2]] = FZero
          /\ bui[p[1]][p[2]] = FNeg(bui_ndvi[p[1]][p[2]])
    /\ \E p \in Pixels(bui) :
          /\ nir_band[p[1]][p[2]] = 1 /\ red_band[p[1]][p[2]] = -1
          /\ swir[p[1]][p[2]] = FInt(2)
          /\ bui_ndvi[p[1]][p[2]] = FZero
          /\ bui[p[1]][p[2]] = ndbi[p[1]][p[2]]

\* C17: for bands of an unsigned integer type the index is computed on the true
\* sum and the true difference of the band values: a sum of 2^w or more does not
\* wrap, a difference a - b with a < b is negative, and the quotient is the
\* fraction itself, not its integer part.
C17_IntegerBandsUpcast ==
    upc = "done" =>
        \A p \in Pixels(bui) :
            LET s == BAt(swir, p[1], p[2]).n
                n == BAt(nir_band, p[1], p[2])
                r == BAt(red_band, p[1], p[2])
            IN  (s >= 0 /\ n >= 0 /\ r >= 0) =>
                    /\ n + r # 0 => BAt(bui_ndvi, p[1], p[2]) = Rat(n - r, n + r)
                    /\ s + n # 0 => BAt(ndbi, p[1], p[2]) = Rat(s - n, s + n)
                    /\ n < r => FLt(BAt(bui_ndvi, p[1], p[2]), FZero)
                    /\ s < n => FLt(BAt(ndbi, p[1], p[2]), FZero)

\* C17 witness: uint8 bands with NIR = 255, Red = 1 and SWIR = 1: NIR + Red is 2^8,
\* SWIR - NIR is negative, and both quotients are proper fractions.
C17_Witness ==
    /\ upc = "done"
    /\ nir_band = <<<<255>>>> /\ red_band = <<<<1>>>> /\ swir_band = <<<<1>>>>
    /\ bui_ndvi[1][1] = Rat(127, 128)
    /\ ndbi[1][1] = Rat(-127, 128)

\* C18 (as stated): a stage function leaves every value passed to it as it was at
\* call time: over a call of create_classification_map the labels, the validity
\* mask, the shape and the profile of the caller keep their values.
C18_InputsUnchanged ==
    [][kpc = "labelled" =>
          /\ labels' = labels
          /\ valid_pixels' = valid_pixels
          /\ original_shape' = original_shape
          /\ profile' = profile]_vars

\* C18 (what holds): the arrays passed to create_classification_map keep their
\* values; the profile is updated in place.
C18_ArraysUnchanged ==
    [][kpc = "labelled" =>
          /\ labels' = labels
          /\ valid_pixels' = valid_pixels
          /\ original_shape' = original_shape
          /\ profile' = [profile EXCEPT !.dtype = "uint8", !.nodata = {0}]]_vars

\* the four scripts in the order of the claim
FixedOrder == <<"calculate_ndvi.py", "land_cover_classification.py",
                "change_detection.py", "urban_extraction.py">>

\* C19: the child processes are started in the fixed order NDVI, classification,
\* change detection, urban extraction, each after the one before it has ended;
\* when main has printed its summary every analysis has run exactly once,
\* whatever the outcome of the others, and the success count of the summary is
\* the number of analyses that ended with success.
C19_FourAnalysesInOrder ==
    /\ \A k \in 1..Len(rn_log) :
          /\ rn_log[k].script = FixedOrder[(k + 1) \div 2]
          /\ rn_log[k].ev = (IF k % 2 = 1 THEN "start" ELSE "end")
    /\ rn_pc = "done" =>
          /\ Len(rn_log) = 2 * Len(FixedOrder)
          /\ successful = Cardinality({k \in 1..Len(rn_log) : rn_log[k].outcome = "ok"})

\* C19 witness: the summary is printed after the first analysis ended with a
\* non-zero exit status, the third could not be started and the two others
\* succeeded: the count is 2.
C19_Witness ==
    /\ rn_pc = "done"
    /\ Len(rn_log) = 8
    /\ rn_log[2].outcome = "nonzero" /\ rn_log[4].outcome = "ok"
    /\ rn_log[6].outcome = "notfound" /\ rn_log[8].outcome = "ok"
    /\ successful = 2

\* C20 (as stated): for a requested window size w with 0 <= w <= min(H, W) the
\* cropped stack has exactly w rows and w columns, for odd w as for even w; when
\* w exceeds an extent the crop has the full extent along that axis.
C20_WindowHasRequestedSize ==
    kpc = "prepared" =>
        LET h == Height(stacks[year][1])
            w == Width(stacks[year][1])
        IN  /\ window_size <= Min(h, w) => original_shape = <<window_size, window_size>>
            /\ window_size > h => original_shape[1] = h
            /\ window_size > w => original_shape[2] = w

\* C20 (what holds): the crop has 2 * (w div 2) rows and columns, which is w for
\* even w and w - 1 for odd w; when w exceeds an extent the crop has the full
\* extent along that axis.
C20_WindowHasEvenSize ==
    kpc = "prepared" =>
        LET h == Height(stacks[year][1])
            w == Width(stacks[year][1])
            even == 2 * (window_size \div 2)
        IN  /\ window_size <= Min(h, w) => original_shape = <<even, even>>
            /\ window_size > h => original_shape[1] = h
            /\ window_size > w => original_shape[2] = w

\* the orders in which the four assignments can be applied
AssignmentOrders ==
    {o \in [1..4 -> 1..4] : \A i, j \in 1..4 : i # j => o[i] # o[j]}

\* C21: with the default thresholds every pixel of the raster extract_urban_areas
\* returns has one class of 0..4: 1 iff ndvi < 0.3 and bui > 0.1; 2 iff ndvi > 0.4;
\* 3 iff ndvi < 0.1 and bui < 0.05; 4 iff ndvi < 0.2 and bui < 0.1 and the pixel
\* is not of class 3; 0 otherwise.  The conditions of classes 1, 2 and 3 are
\* pairwise disjoint and each is disjoint from that of class 4, and applying the
\* four assignments in any order gives the same raster.  save_urban_areas writes
\* 1 for the pixels of class 1 and 0 for all others.
C21_ClassesDisjointAnyOrder ==
    /\ epc \in {"extracted", "saved"} =>
        /\ Shape(ex_urban_mask) = Shape(ex_ndvi)
        /\ \A p \in Pixels(ex_urban_mask) :
            LET nd == ex_ndvi[p[1]][p[2]]
                bu == ex_bui[p[1]][p[2]]
                c  == ex_urban_mask[p[1]][p[2]]
                c1 == FLt(nd, Rat(3, 10)) /\ FLt(Rat(1, 10), bu)
                c2 == FLt(Rat(4, 10), nd)
                c3 == FLt(nd, Rat(1, 10)) /\ FLt(bu, Rat(5, 100))
                c4 == FLt(nd, Rat(2, 10)) /\ FLt(bu, Rat(1, 10)) /\ ~c3
            IN  /\ c \in 0..4
                /\ c = 1 <=> c1
                /\ c = 2 <=> c2
                /\ c = 3 <=> c3
                /\ c = 4 <=> c4
                /\ c = 0 <=> ~(c1 \/ c2 \/ c3 \/ c4)
                /\ ~(c1 /\ c2) /\ ~(c1 /\ c3) /\ ~(c1 /\ c4)
                /\ ~(c2 /\ c3) /\ ~(c2 /\ c4) /\ ~(c3 /\ c4)
        /\ \A o \in AssignmentOrders :
            AssignAll(o, Const(Height(ex_ndvi), Width(ex_ndvi), 0), ex_ndvi, ex_bui,
                      Rat(3, 10), Rat(1, 10)) = ex_urban_mask
    /\ epc = "saved" =>
        /\ Shape(urban_file) = Shape(ex_urban_mask)
        /\ \A p \in Pixels(ex_urban_mask) :
            /\ urban_file[p[1]][p[2]] \in {0, 1}
            /\ urban_file[p[1]][p[2]] = 1 <=> ex_urban_mask[p[1]][p[2]] = 1

\* C21 witness: a saved raster with an urban pixel (ndvi 0.25, bui 0.2) beside a
\* water pixel (ndvi 0, bui 0) that also meets both bare-soil comparisons
C21_Witness ==
    /\ epc = "saved"
    /\ ex_ndvi = <<<<Rat(25, 100), FZero>>>>
    /\ ex_bui = <<<<Rat(2, 10), FZero>>>>
    /\ ex_urban_mask = <<<<1, 3>>>>
    /\ urban_file = <<<<1, 0>>>>
====
